---------------------------- MODULE Spec2Model ----------------------------
(***************************************************************************)
(* Taxonomy Resolver: the dict-based resolver TaxonResolverFast of         *)
(* taxonresolver/tree_fast.py.                                             *)
(*                                                                         *)
(* A tree is the Python dict {"nodes": {...}, "children": {...}}.  The two *)
(* inner dicts are mutable objects that several references may share       *)
(* (copy.copy is a shallow copy), so they live in a heap and the resolver  *)
(* holds references into it.  A dict is modelled with its insertion order: *)
(* "nodes" is the sequence of its values (each value carries its key,      *)
(* tax_id), "children" is a function from its keys to Python lists.        *)
(* TaxIDs are strings in the code and are only ever compared for equality; *)
(* the model numbers them.  A rank label is the sequence of the pieces of  *)
(* its text, the separator characters " " and "-" being pieces of their    *)
(* own.                                                                    *)
(*                                                                         *)
(* TaxonResolver of taxonresolver/tree.py, in its default mode "anytree",  *)
(* holds anytree nodes instead.  Filtering creates new nodes and changes   *)
(* no existing one, so its trees are values: the nodes that hang from the  *)
(* root, by name.                                                          *)
(***************************************************************************)
EXTENDS Integers, Sequences, FiniteSets, TLC

VARIABLES
    logging,     \* TaxonResolverFast.logging: a logger was passed (TRUE) or None
    heap,        \* the live tree objects, by reference
    tree,        \* TaxonResolverFast.tree: a reference, or None
    full_tree,   \* TaxonResolverFast._full_tree: a reference, or None
    last,        \* the last call on a resolver: its arguments and its outcome
    outfile,     \* the file TaxonResolverFast.write wrote, or None
    a_tree,      \* TaxonResolver.tree when it is an anytree tree, else None
    a_full_tree, \* TaxonResolver._full_tree: an anytree tree, or None
    parsed,      \* the last call of parse_tax_ids: its arguments and its outcome
    mode,        \* TaxonResolver.mode: "anytree" or "fast"
    f_tree,      \* TaxonResolver.tree when it is a dict, else None
    taxdump      \* the nodes.dmp that TaxonResolver.build read last

vars == <<logging, heap, tree, full_tree, last, outfile, a_tree, a_full_tree, parsed,
          mode, f_tree, taxdump>>

\* What the calls on a TaxonResolver in mode "anytree" leave alone.
modes == <<mode, f_tree, taxdump>>

\* What the calls on TaxonResolverFast that read and change its trees leave alone.
others == <<outfile, a_tree, a_full_tree, parsed, modes>>

\* TaxIDs that occur in dumps and in ID lists are 1..MaxId.
MaxId == 3

None == 0

TaxIds == 1..MaxId

\* ------------------------------------------------------------------ inputs

RECURSIVE AscSeq(_)
\* The elements of a finite set of numbers as an ascending list.
AscSeq(S) ==
    IF S = {} THEN <<>>
    ELSE LET m == CHOOSE x \in S : \A y \in S : x <= y
         IN  <<m>> \o AscSeq(S \ {m})

Range(s) == {s[i] : i \in 1..Len(s)}

\* The ID lists handed to filter, search and validate.
IdLists == {AscSeq(S) : S \in SUBSET TaxIds}

\* The rank column of nodes.dmp for the line of TaxID n.
RankLabel(n) == IF n % 2 = 0 THEN <<"species">> ELSE <<"no", " ", "rank">>

\* A line of nodes.dmp is the texts between its "\t|" separators (cells) and
\* the text after the last one (tail); a text is the sequence of its pieces.
\* A TaxID is written with its digit: the numbers of the TaxIDs stay below 10.
Digits == <<"1", "2", "3", "4", "5", "6", "7", "8", "9">>

\* The line of TaxID n with parent p: "n\t|\tp\t|\trank\t|\n".
DumpLine(n, p) ==
    [cells |-> << <<Digits[n]>>, <<"\t", Digits[p]>>, <<"\t">> \o RankLabel(n) >>,
     tail |-> <<"\n">>]

\* The parent columns: TaxID 1 is its own parent (the root of the NCBI dump),
\* every other TaxID names a smaller one, which the dump may or may not hold.
ParentMaps == {p \in [TaxIds -> TaxIds] : p[1] = 1 /\ \A n \in TaxIds \ {1} : p[n] < n}

\* The nodes.dmp files: one line per TaxID of a non-empty set, ascending.
Dumps ==
    {[i \in 1..Len(AscSeq(D)) |-> DumpLine(AscSeq(D)[i], p[AscSeq(D)[i]])] :
        D \in (SUBSET TaxIds) \ {{}}, p \in ParentMaps}

\* The rank columns of the lines a dump may hold besides.
Ranks == {<<"species">>, <<"no", " ", "rank">>, <<"sub", "-", "species">>}

\* The parents such a line may name for TaxID n.
UpTo(n) == {p \in TaxIds : p <= n}

\* A TaxID that no line declares.
Undeclared == MaxId + 1

\* The lines a dump may hold besides: a whole line for any TaxID, rank and
\* parent, an undeclared one too; a line of a TaxID and a parent with no rank column, "n\t|\tp\t|\n";
\* the same without the last separator, "n\t|\tp\n"; a TaxID alone, "n\n";
\* and an empty line.
ExtraLines ==
    {[cells |-> << <<Digits[n]>>, <<"\t", Digits[p]>>, <<"\t">> \o r >>, tail |-> <<"\n">>] :
        <<n, p, r>> \in {t \in TaxIds \X (TaxIds \cup {Undeclared}) \X Ranks :
                            t[2] \in UpTo(t[1]) \cup {Undeclared}}}
    \cup {[cells |-> << <<Digits[t[1]]>>, <<"\t", Digits[t[2]]>> >>, tail |-> <<"\n">>] :
            t \in {u \in TaxIds \X TaxIds : u[2] \in UpTo(u[1])}}
    \cup {[cells |-> << <<Digits[t[1]]>> >>, tail |-> <<"\t", Digits[t[2]], "\n">>] :
            t \in {u \in TaxIds \X TaxIds : u[2] \in UpTo(u[1])}}
    \cup {[cells |-> <<>>, tail |-> <<Digits[n], "\n">>] : n \in TaxIds}
    \cup {[cells |-> <<>>, tail |-> <<"\n">>]}

\* The nodes.dmp files with their anomalies: a dump, or a dump and one more line.
AnyDumps == Dumps \cup {Append(d, l) : d \in Dumps, l \in ExtraLines}

\* ------------------------------------------------------------ utils.py

Whitespace == {" ", "\t", "\n"}

RECURSIVE strip(_)
\* str.strip(): the text without the whitespace at its two ends.
strip(text) ==
    IF text = <<>> THEN text
    ELSE IF Head(text) \in Whitespace THEN strip(Tail(text))
    ELSE IF text[Len(text)] \in Whitespace THEN strip(SubSeq(text, 1, Len(text) - 1))
    ELSE text

\* The string of a text: the text of one digit is the TaxID numbered so.
Str(text) ==
    IF Len(text) = 1 /\ \E n \in DOMAIN Digits : Digits[n] = text[1]
    THEN CHOOSE n \in DOMAIN Digits : Digits[n] = text[1]
    ELSE text

\* split_line: [x.strip() for x in line.split("\t|")]
split_line(line) ==
    LET parts == line.cells \o <<line.tail>>
    IN  [i \in 1..Len(parts) |-> Str(strip(parts[i]))]

\* label_to_id: text.replace(" ", "_").replace("-", "_")
label_to_id(text) ==
    [i \in 1..Len(text) |-> IF text[i] \in {" ", "-"} THEN "_" ELSE text[i]]

\* The characters of the lines of an ID file, the end of line apart.
Chars == {"#", " ", ",", "1"}

\* The longest line of an ID file and the most lines of one.
MaxLineLen == 2
MaxLines == 3

\* The texts of at most n characters.
Texts(n) == UNION {[1..k -> Chars] : k \in 0..n}

\* The ID files: their lines, each with its end of line.
IdFiles ==
    UNION {[1..k -> {text \o <<"\n">> : text \in Texts(MaxLineLen)}] : k \in 1..MaxLines}

\* The separators passed as sep, "" for None, and the indexes passed as indx.
Seps == {" ", ",", ""}
Indexes == {0, 1}

\* line.startswith(prefix), for a prefix of one character
startswith(line, prefix) == line # <<>> /\ Head(line) = prefix

RECURSIVE rstrip(_)
\* str.rstrip(): the text without the whitespace at its end.
rstrip(text) ==
    IF text = <<>> THEN text
    ELSE IF text[Len(text)] \in Whitespace THEN rstrip(SubSeq(text, 1, Len(text) - 1))
    ELSE text

RECURSIVE split(_, _)
\* str.split(sep) for a separator of one character: the texts between the
\* separators, the empty ones too.
split(text, sep) ==
    LET at == {i \in 1..Len(text) : text[i] = sep}
    IN  IF at = {} THEN <<text>>
        ELSE LET i == CHOOSE j \in at : \A k \in at : j <= k
             IN  <<SubSeq(text, 1, i - 1)>> \o split(SubSeq(text, i + 1, Len(text)), sep)

RECURSIVE split_whitespace(_)
\* str.split(): the texts between the runs of whitespace, none of them empty.
split_whitespace(text) ==
    LET at == {i \in 1..Len(text) : text[i] \in Whitespace}
    IN  IF at = {} THEN (IF text = <<>> THEN <<>> ELSE <<text>>)
        ELSE LET i == CHOOSE j \in at : \A k \in at : j <= k
                 rest == split_whitespace(SubSeq(text, i + 1, Len(text)))
             IN  IF i = 1 THEN rest ELSE <<SubSeq(text, 1, i - 1)>> \o rest

\* The fields of a line of parse_tax_ids: line.split(sep) if sep, else line.split()
fields_of(line, sep) == IF sep # "" THEN split(line, sep) ELSE split_whitespace(line)

RECURSIVE parse_lines_with_comments(_, _, _, _, _)
\* The loop of parse_tax_ids taking the lines that start with "#" as the others.
parse_lines_with_comments(infile, i, sep, indx, tax_ids) ==
    IF i > Len(infile) THEN [ret |-> tax_ids, exc |-> "none"]
    ELSE LET line == rstrip(infile[i])
         IN  IF line = <<>> THEN parse_lines_with_comments(infile, i + 1, sep, indx, tax_ids)
             ELSE LET fields == fields_of(line, sep)
                  IN  IF indx + 1 > Len(fields) THEN [ret |-> <<>>, exc |-> "IndexError"]
                      ELSE parse_lines_with_comments(infile, i + 1, sep, indx,
                               IF fields[indx + 1] # <<>>
                               THEN Append(tax_ids, fields[indx + 1]) ELSE tax_ids)

RECURSIVE parse_lines(_, _, _, _, _)
\* The loop of parse_tax_ids over the lines of the file, from line i on, with
\* the list tax_ids so far: the list returned and the exception raised.
parse_lines(infile, i, sep, indx, tax_ids) ==
    IF i > Len(infile) THEN [ret |-> tax_ids, exc |-> "none"]
    ELSE IF startswith(infile[i], "#")
         THEN parse_lines(infile, i + 1, sep, indx, tax_ids)
    ELSE LET line == rstrip(infile[i])
         IN  IF line = <<>> THEN parse_lines(infile, i + 1, sep, indx, tax_ids)
             ELSE LET fields == fields_of(line, sep)
                  IN  IF indx + 1 > Len(fields) THEN [ret |-> <<>>, exc |-> "IndexError"]
                      ELSE parse_lines(infile, i + 1, sep, indx,
                               IF fields[indx + 1] # <<>>
                               THEN Append(tax_ids, fields[indx + 1]) ELSE tax_ids)

\* parse_tax_ids(inputfile, sep, indx)
parse_tax_ids(inputfile, sep, indx) == parse_lines(inputfile, 1, sep, indx, <<>>)

\* No call of parse_tax_ids.
NoParse == [done |-> FALSE, inputfile |-> <<>>, sep |-> "", indx |-> 0,
            ret |-> <<>>, exc |-> "none"]

\* ------------------------------------------------------------ the heap

EmptyDict == [k \in {} |-> <<>>]

\* A fresh {"nodes": {}, "children": {}}.
NewTreeDict == [nodes |-> <<>>, children |-> EmptyDict]

\* The reference a newly created object gets: the first one not in use.
Alloc(h) == CHOOSE r \in 1..(Cardinality(DOMAIN h) + 1) :
                r \notin DOMAIN h /\ \A q \in 1..(r - 1) : q \in DOMAIN h

\* What is left of heap h once the objects no reference of `roots` reaches
\* are reclaimed.
Reclaim(h, roots) == [r \in (DOMAIN h) \cap roots |-> h[r]]

\* d[key] = value on the dict "nodes": a new key is appended, an old key keeps
\* its place.
DictSet(nodes, value) ==
    IF \E i \in 1..Len(nodes) : nodes[i].tax_id = value.tax_id
    THEN [i \in 1..Len(nodes) |->
            IF nodes[i].tax_id = value.tax_id THEN value ELSE nodes[i]]
    ELSE Append(nodes, value)

\* The keys of the dict "nodes".
NodeKeys(nodes) == {nodes[i].tax_id : i \in 1..Len(nodes)}

\* nodes[key], for a key of the dict.
DictGet(nodes, key) == nodes[CHOOSE i \in 1..Len(nodes) : nodes[i].tax_id = key]

\* ------------------------------------------------------------ tree_fast.py

RECURSIVE reparent(_, _, _)
\* The loop of tree_reparenting from the i-th item of tree_dict["nodes"] on.
reparent(nodes, i, children) ==
    IF i > Len(nodes) THEN children
    ELSE LET v == nodes[i]
         IN  reparent(nodes, i + 1,
                IF v.parent_tax_id \notin DOMAIN children
                THEN children @@ (v.parent_tax_id :> <<v.tax_id>>)
                ELSE [children EXCEPT ![v.parent_tax_id] = Append(@, v.tax_id)])

\* tree_reparenting going twice over tree_dict["nodes"].
tree_reparenting_twice(h, r) ==
    [h EXCEPT ![r].children =
        reparent(h[r].nodes, 1, reparent(h[r].nodes, 1, h[r].children))]

\* tree_reparenting(tree_dict): fills tree_dict["children"] in place; the heap
\* after the call (the call returns its argument).
tree_reparenting(h, r) ==
    [h EXCEPT ![r].children = reparent(h[r].nodes, 1, h[r].children)]

RECURSIVE read_nodes(_, _, _)
\* The loop of build_tree over the lines of nodes.dmp: the dict "nodes" read
\* and the exception raised.  fields[1] or fields[2] of a line that split_line
\* cuts in fewer than three is an IndexError.
read_nodes(lines, i, nodes) ==
    IF i > Len(lines) THEN [nodes |-> nodes, exc |-> "none"]
    ELSE LET fields == split_line(lines[i])
         IN  IF Len(fields) < 3 THEN [nodes |-> nodes, exc |-> "IndexError"]
             ELSE LET dict_node == [tax_id |-> fields[1],
                                    parent_tax_id |-> fields[2],
                                    rank |-> label_to_id(fields[3])]
                  IN  read_nodes(lines, i + 1, DictSet(nodes, dict_node))

\* build_tree(inputfile): the heap after the call, the reference returned and
\* the exception raised.
build_tree(h, inputfile) ==
    LET read == read_nodes(inputfile, 1, <<>>)
        r    == Alloc(h)
        h1   == h @@ (r :> [NewTreeDict EXCEPT !.nodes = read.nodes])
    IN  IF read.exc # "none" THEN [heap |-> h, ret |-> None, exc |-> read.exc]
        ELSE [heap |-> tree_reparenting(h1, r), ret |-> r, exc |-> "none"]

\* validate_by_taxid looking the ID up among the parents as well: a node
\* without children is no longer valid.
validate_by_taxid_parent(h, t, tax_id) ==
    tax_id \in NodeKeys(h[t].nodes) /\ tax_id \in DOMAIN h[t].children

\* validate_by_taxid(tree, tax_id): tax_id in tree["nodes"]
validate_by_taxid(h, t, tax_id) == tax_id \in NodeKeys(h[t].nodes)

RECURSIVE copy_nodes(_, _, _, _)
\* The loop of filter_tree: tree_dict["nodes"][tax_id] = tree["nodes"][tax_id]
copy_nodes(source, tax_ids, i, nodes) ==
    IF i > Len(tax_ids) THEN nodes
    ELSE copy_nodes(source, tax_ids, i + 1, DictSet(nodes, DictGet(source, tax_ids[i])))

\* filter_tree copying every node of the tree, not only the valid filter IDs.
filter_tree_keep_all(h, t, filterids) ==
    IF t = None
    THEN IF filterids # <<>>
         THEN [heap |-> h, ret |-> None, exc |-> "TypeError"]
         ELSE LET r == Alloc(h)
              IN  [heap |-> tree_reparenting(h @@ (r :> NewTreeDict), r),
                   ret |-> r, exc |-> "none"]
    ELSE LET r  == Alloc(h)
             h1 == h @@ (r :> [NewTreeDict EXCEPT !.nodes = h[t].nodes])
         IN  [heap |-> tree_reparenting(h1, r), ret |-> r, exc |-> "none"]

\* filter_tree with tree_dict = tree instead of a fresh dict: the nodes are
\* assigned and re-parented in the tree that is filtered.
filter_tree_in_place(h, t, filterids) ==
    IF t = None
    THEN IF filterids # <<>>
         THEN [heap |-> h, ret |-> None, exc |-> "TypeError"]
         ELSE LET r == Alloc(h)
              IN  [heap |-> tree_reparenting(h @@ (r :> NewTreeDict), r),
                   ret |-> r, exc |-> "none"]
    ELSE LET tax_ids == SelectSeq(filterids, LAMBDA x : validate_by_taxid(h, t, x))
             h1 == [h EXCEPT ![t].nodes = copy_nodes(h[t].nodes, tax_ids, 1, h[t].nodes)]
         IN  [heap |-> tree_reparenting(h1, t), ret |-> t, exc |-> "none"]

\* filter_tree taking the nodes from the full tree that the resolver keeps,
\* not from the tree it is given.
filter_tree_of_full_tree(h, t, filterids) ==
    IF t = None
    THEN IF filterids # <<>>
         THEN [heap |-> h, ret |-> None, exc |-> "TypeError"]
         ELSE LET r == Alloc(h)
              IN  [heap |-> tree_reparenting(h @@ (r :> NewTreeDict), r),
                   ret |-> r, exc |-> "none"]
    ELSE LET from    == IF full_tree # None THEN full_tree ELSE t
             tax_ids == SelectSeq(filterids, LAMBDA x : validate_by_taxid(h, from, x))
             r  == Alloc(h)
             h1 == h @@ (r :> [NewTreeDict EXCEPT
                                 !.nodes = copy_nodes(h[from].nodes, tax_ids, 1, <<>>)])
         IN  [heap |-> tree_reparenting(h1, r), ret |-> r, exc |-> "none"]

\* filter_tree(tree, filterids) for a list of TaxIDs: the heap after the call,
\* the reference returned and the exception raised.  On tree = None the first
\* validate_by_taxid subscripts None.
filter_tree(h, t, filterids) ==
    IF t = None
    THEN IF filterids # <<>>
         THEN [heap |-> h, ret |-> None, exc |-> "TypeError"]
         ELSE LET r == Alloc(h)
              IN  [heap |-> tree_reparenting(h @@ (r :> NewTreeDict), r),
                   ret |-> r, exc |-> "none"]
    ELSE LET tax_ids == SelectSeq(filterids, LAMBDA x : validate_by_taxid(h, t, x))
             r  == Alloc(h)
             h1 == h @@ (r :> [NewTreeDict EXCEPT
                                 !.nodes = copy_nodes(h[t].nodes, tax_ids, 1, <<>>)])
         IN  [heap |-> tree_reparenting(h1, r), ret |-> r, exc |-> "none"]

\* validate_taxids(tree, validateids, filterids): the value returned and the
\* exception raised.  `tax_id in taxids_filter or tax_id in tree["nodes"]`
\* subscripts the tree only for an ID the filter list does not hold.
validate_taxids(h, t, validateids, filterids) ==
    LET taxids_filter == IF filterids.given THEN filterids.ids ELSE <<>>
    IN  IF t = None /\ \E i \in 1..Len(validateids) :
                          validateids[i] \notin Range(taxids_filter)
        THEN [ret |-> FALSE, exc |-> "TypeError"]
        ELSE LET taxids_valid ==
                     [i \in 1..Len(validateids) |->
                         \/ validateids[i] \in Range(taxids_filter)
                         \/ validateids[i] \in NodeKeys(h[t].nodes)]
             IN  [ret |-> IF FALSE \in Range(taxids_valid) THEN FALSE ELSE TRUE,
                  exc |-> "none"]

\* find_by_taxid(tree, tax_id): tree["nodes"][tax_id]
find_by_taxid(h, t, tax_id) == DictGet(h[t].nodes, tax_id)

\* No file.
NoFile == [format |-> "none", null |-> TRUE, nodes |-> <<>>, children |-> <<>>]

\* The text of a TaxID string in a file.
IdText(n) == <<Digits[n]>>

\* What json.dump and pickle.dump write of the tree at t: null for None, else
\* the members of "nodes" and of "children", each a key with its value, the
\* TaxID strings as text.
dump(h, t) ==
    IF t = None THEN [null |-> TRUE, nodes |-> <<>>, children |-> <<>>]
    ELSE LET nodes == h[t].nodes
             keys  == AscSeq(DOMAIN h[t].children)
         IN  [null |-> FALSE,
              nodes |-> [i \in 1..Len(nodes) |->
                            [key |-> IdText(nodes[i].tax_id),
                             value |-> [tax_id |-> IdText(nodes[i].tax_id),
                                        parent_tax_id |-> IdText(nodes[i].parent_tax_id),
                                        rank |-> nodes[i].rank]]],
              children |-> [i \in 1..Len(keys) |->
                               [key |-> IdText(keys[i]),
                                value |-> [j \in 1..Len(h[t].children[keys[i]]) |->
                                              IdText(h[t].children[keys[i]][j])]]]]

\* write_tree(tree, outputfile, outputformat): the file after the call.
write_tree(h, t, file, outputformat) ==
    IF outputformat \in {"pickle", "fast"} THEN [format |-> "pickle"] @@ dump(h, t)
    ELSE IF outputformat = "json" THEN [format |-> "json"] @@ dump(h, t)
    ELSE file

RECURSIVE load_nodes(_, _, _)
\* The dict "nodes" read back, member after member.
load_nodes(members, i, nodes) ==
    IF i > Len(members) THEN nodes
    ELSE load_nodes(members, i + 1,
            DictSet(nodes, [tax_id |-> Str(members[i].key),
                            parent_tax_id |-> Str(members[i].value.parent_tax_id),
                            rank |-> members[i].value.rank]))

\* load_tree reading the nodes and leaving "children" empty.
load_tree_nodes_only(h, file, inputformat) ==
    IF inputformat \notin {"pickle", "json"}
    THEN [heap |-> h, ret |-> None, exc |-> "none"]
    ELSE IF file = NoFile THEN [heap |-> h, ret |-> None, exc |-> "FileNotFoundError"]
    ELSE IF inputformat = "pickle" /\ file.format # "pickle"
    THEN [heap |-> h, ret |-> None, exc |-> "UnpicklingError"]
    ELSE IF inputformat = "json" /\ file.format # "json"
    THEN [heap |-> h, ret |-> None, exc |-> "ValueError"]
    ELSE IF file.null
    THEN [heap |-> h, ret |-> None, exc |-> "none"]
    ELSE LET r == Alloc(h)
         IN  [heap |-> h @@ (r :> [nodes |-> load_nodes(file.nodes, 1, <<>>),
                                   children |-> EmptyDict]),
              ret |-> r, exc |-> "none"]

\* load_tree(inputfile, inputformat): the heap after the call, the reference
\* returned and the exception raised.  A format that is neither "pickle" nor
\* "json" opens no file and returns None.  pickle.load does not read what
\* json.dump wrote (UnpicklingError), nor json.load what pickle.dump wrote (a
\* ValueError: UnicodeDecodeError or JSONDecodeError).
load_tree(h, file, inputformat) ==
    IF inputformat \notin {"pickle", "json"}
    THEN [heap |-> h, ret |-> None, exc |-> "none"]
    ELSE IF file = NoFile THEN [heap |-> h, ret |-> None, exc |-> "FileNotFoundError"]
    ELSE IF inputformat = "pickle" /\ file.format # "pickle"
    THEN [heap |-> h, ret |-> None, exc |-> "UnpicklingError"]
    ELSE IF inputformat = "json" /\ file.format # "json"
    THEN [heap |-> h, ret |-> None, exc |-> "ValueError"]
    ELSE IF file.null
    THEN [heap |-> h, ret |-> None, exc |-> "none"]
    ELSE LET r == Alloc(h)
             children == [k \in {Str(file.children[i].key) : i \in 1..Len(file.children)} |->
                             LET m == file.children[
                                          CHOOSE i \in 1..Len(file.children) :
                                              Str(file.children[i].key) = k]
                             IN  [j \in 1..Len(m.value) |-> Str(m.value[j])]]
         IN  [heap |-> h @@ (r :> [nodes |-> load_nodes(file.nodes, 1, <<>>),
                                   children |-> children]),
              ret |-> r, exc |-> "none"]

RECURSIVE get_leaves(_, _, _, _)
RECURSIVE leaves_of_each(_, _, _, _, _)
\* get_leaves(taxids, tree) of search_taxids, at recursion depth `depth`, with
\* the list taxids_found it extends: the list after the call and whether the
\* recursion never ends.  Every level below the first went through one more
\* key of tree["children"]; deeper than the number of keys, a key has come
\* back and the recursion goes on until the interpreter's RecursionError.
get_leaves(taxids, children, taxids_found, depth) ==
    IF depth > Cardinality(DOMAIN children)
    THEN [found |-> taxids_found, endless |-> TRUE]
    ELSE leaves_of_each(taxids, 1, children, taxids_found \o taxids, depth)

\* The loop `for taxid in taxids: get_leaves(tree["children"][taxid], tree)`,
\* a KeyError meaning that taxid is a leaf.
leaves_of_each(taxids, i, children, taxids_found, depth) ==
    IF i > Len(taxids) THEN [found |-> taxids_found, endless |-> FALSE]
    ELSE IF taxids[i] \notin DOMAIN children
         THEN leaves_of_each(taxids, i + 1, children, taxids_found, depth)
         ELSE LET below == get_leaves(children[taxids[i]], children, taxids_found, depth + 1)
              IN  IF below.endless THEN below
                  ELSE leaves_of_each(taxids, i + 1, children, below.found, depth)

RECURSIVE search_each_fresh(_, _, _, _)
\* The loop of search_taxids starting every ID of taxids_search with an empty
\* list: what the earlier IDs found is forgotten.
search_each_fresh(searchids, i, children, taxids_found) ==
    IF i > Len(searchids) THEN [found |-> taxids_found, endless |-> FALSE]
    ELSE IF searchids[i] \notin DOMAIN children
         THEN search_each_fresh(searchids, i + 1, children, taxids_found)
         ELSE LET below == get_leaves(children[searchids[i]], children, <<>>, 1)
              IN  IF below.endless THEN below
                  ELSE search_each_fresh(searchids, i + 1, children, below.found)

RECURSIVE search_each(_, _, _, _)
\* The loop of search_taxids over taxids_search.
search_each(searchids, i, children, taxids_found) ==
    IF i > Len(searchids) THEN [found |-> taxids_found, endless |-> FALSE]
    ELSE IF searchids[i] \notin DOMAIN children
         THEN search_each(searchids, i + 1, children, taxids_found)
         ELSE LET below == get_leaves(children[searchids[i]], children, taxids_found, 1)
              IN  IF below.endless THEN below
                  ELSE search_each(searchids, i + 1, children, below.found)

\* search_taxids(tree, searchids, filterids, **kw): the set of the list
\* returned and the exception raised.  The function takes no keyword but sep
\* and indx: any other one is a TypeError of the call.
search_taxids(h, t, searchids, filterids, kw) ==
    IF kw.given THEN [ret |-> {}, exc |-> "TypeError"]
    ELSE IF t = None /\ searchids # <<>> THEN [ret |-> {}, exc |-> "TypeError"]
    ELSE LET taxids_filter == IF filterids.given THEN filterids.ids ELSE <<>>
             walk == IF searchids = <<>>
                     THEN [found |-> <<>>, endless |-> FALSE]
                     ELSE search_each(searchids, 1, h[t].children, <<>>)
             taxids_found ==
                 IF taxids_filter # <<>>
                 THEN SelectSeq(walk.found, LAMBDA x : x \in Range(taxids_filter))
                 ELSE walk.found
         IN  IF walk.endless THEN [ret |-> {}, exc |-> "RecursionError"]
             ELSE [ret |-> Range(taxids_found), exc |-> "none"]

\* ------------------------------------------------------------ tree.py

\* TaxonResolver.root_key, "1"
root_key == 1

\* None, where an anytree tree is expected.
NoNode == [root |-> None, nodes |-> EmptyDict]

\* get_node_from_dict: Node(name, rank=..., taxonName=..., parentTaxId=...)
get_node_from_dict(node) ==
    [name |-> node.name, rank |-> node.rank,
     taxonName |-> node.taxonName, parentTaxId |-> node.parentTaxId]

RECURSIVE hangs(_, _, _, _)
\* Once getRONode has set the parents of the nodes of tree_dict, node n is
\* node a or hangs from it, at most k levels below: the parent of a node is
\* the node of its parentTaxId, if tree_dict has it and it is another node.
hangs(tree_dict, n, a, k) ==
    \/ n = a
    \/ /\ k > 0
       /\ tree_dict[n].parentTaxId \in DOMAIN tree_dict
       /\ tree_dict[n].parentTaxId # n
       /\ hangs(tree_dict, tree_dict[n].parentTaxId, a, k - 1)

\* tree_reparenting(tree_dict, root_key) of tree.py: the node tree_dict[root_key]
\* with what hangs from it, and the exception raised.
any_tree_reparenting(tree_dict, rk) ==
    IF rk \notin DOMAIN tree_dict THEN [ret |-> NoNode, exc |-> "KeyError"]
    ELSE LET below == {n \in DOMAIN tree_dict :
                          hangs(tree_dict, n, rk, Cardinality(DOMAIN tree_dict))}
         IN  [ret |-> [root |-> rk, nodes |-> [n \in below |-> tree_dict[n]]],
              exc |-> "none"]

\* find(tree, filter_=lambda n: n.name == tax_id): the node, or None.
find(t, tax_id) == IF tax_id \in DOMAIN t.nodes THEN t.nodes[tax_id] ELSE None

\* node.path, by name: the nodes from the root of the tree down to the node.
path(t, tax_id) ==
    {a \in DOMAIN t.nodes : hangs(t.nodes, tax_id, a, Cardinality(DOMAIN t.nodes))}

\* get_anytree_taxon_nodes(tree, filter_=lambda n: n.name in names): new nodes
\* for the nodes of the tree that pass the filter, by name.
get_anytree_taxon_nodes(t, names) ==
    [n \in (DOMAIN t.nodes) \cap names |-> get_node_from_dict(t.nodes[n])]

\* filter_tree(tree, filterfile, root_key) of tree.py, tax_ids being the IDs
\* parsed from the file: the tree returned and the exception raised.  find
\* returns None for an ID the tree does not have, and None has no path; on
\* tree = None the filter of find or of findall reads the name of None.
any_filter_tree(t, tax_ids, rk) ==
    IF t = NoNode \/ \E i \in 1..Len(tax_ids) : tax_ids[i] \notin DOMAIN t.nodes
    THEN [ret |-> NoNode, exc |-> "AttributeError"]
    ELSE LET tax_id_parents == UNION {path(t, tax_ids[i]) : i \in 1..Len(tax_ids)}
         IN  any_tree_reparenting(get_anytree_taxon_nodes(t, tax_id_parents), rk)

\* The name of the taxon n in names.dmp.
TaxonName(n) == <<"taxon", " ", Digits[n]>>

\* The trees a TaxonResolver wrote with pickle after a build: the node "1" and
\* what hangs from it, each node with its rank, name and parent TaxID.
AnyPickles ==
    {any_tree_reparenting(
         [n \in D |-> [name |-> n, rank |-> RankLabel(n),
                       taxonName |-> TaxonName(n), parentTaxId |-> p[n]]],
         root_key).ret :
        D \in {E \in SUBSET TaxIds : root_key \in E}, p \in ParentMaps}

\* TaxonResolver._valid_modes
valid_modes == {"anytree", "fast"}

\* TaxonResolver.search_rank, "species"
search_rank == <<"species">>

\* The first names of taxonresolver.library.ncbi_node_fields: the columns of
\* nodes.dmp in their order.
ncbi_node_fields == <<"tax_id", "parent_tax_id", "rank">>

RECURSIVE any_read_nodes(_, _, _)
\* The loop of build_tree of tree.py over the lines of nodes.dmp, names.dmp
\* naming every taxon: the dict taxon_nodes and the exception raised.  A line
\* with fewer fields than the three gives dict_node no "rank".  A rank that is
\* neither empty nor "no rank" goes through label_to_id.
any_read_nodes(lines, i, taxon_nodes) ==
    IF i > Len(lines) THEN [nodes |-> taxon_nodes, exc |-> "none"]
    ELSE LET fields == split_line(lines[i])
         IN  IF Len(fields) < Len(ncbi_node_fields)
             THEN [nodes |-> taxon_nodes, exc |-> "KeyError"]
             ELSE LET rank == fields[3]
                      anytree_node ==
                          [name |-> fields[1],
                           rank |-> IF rank # <<>> /\ rank # <<"no", " ", "rank">>
                                    THEN label_to_id(rank) ELSE rank,
                           taxonName |-> TaxonName(fields[1]),
                           parentTaxId |-> fields[2]]
                  IN  any_read_nodes(lines, i + 1,
                          (fields[1] :> anytree_node) @@ taxon_nodes)

\* build_tree(inputfile, root_key) of tree.py, for a dump whose parent links
\* make no loop but the one of a node that is its own parent.
any_build_tree(inputfile, rk) ==
    LET read == any_read_nodes(inputfile, 1, EmptyDict)
    IN  IF read.exc # "none" THEN [ret |-> NoNode, exc |-> read.exc]
        ELSE any_tree_reparenting(read.nodes, rk)

\* What is no dict, where the dict of mode "fast" is expected: None, or an
\* anytree tree, which is subscripted no more than None (TypeError).
NoDict == [nodes |-> <<>>, parents |-> EmptyDict, none |-> TRUE]

\* build_tree_fast(inputfile) of tree.py: the loop over the lines is the one
\* of build_tree of tree_fast.py and tree_reparenting_fast fills "parents" as
\* tree_reparenting of tree_fast.py fills "children".
build_tree_fast(inputfile) ==
    LET read == read_nodes(inputfile, 1, <<>>)
    IN  IF read.exc # "none" THEN [ret |-> NoDict, exc |-> read.exc]
        ELSE [ret |-> [nodes |-> read.nodes,
                       parents |-> reparent(read.nodes, 1, EmptyDict),
                       none |-> FALSE],
              exc |-> "none"]

\* validate_tree(tree, taxidfile, inputfile), the lists being the IDs of the
\* files: an ID is valid if the filter list or the tree has it.  findall on
\* None, for an ID that the filter list does not have, is an AttributeError.
validate_tree(t, taxids_search, filterids) ==
    LET taxids_filter == IF filterids.given THEN filterids.ids ELSE <<>>
    IN  IF t = NoNode /\ \E i \in 1..Len(taxids_search) :
                            taxids_search[i] \notin Range(taxids_filter)
        THEN [ret |-> FALSE, exc |-> "AttributeError"]
        ELSE [ret |-> \A i \in 1..Len(taxids_search) :
                         \/ taxids_search[i] \in Range(taxids_filter)
                         \/ taxids_search[i] \in DOMAIN t.nodes,
              exc |-> "none"]

\* validate_tree_fast(tree, taxidfile, inputfile): an ID is valid if the
\* filter list or tree["nodes"] has it.  None["nodes"] is a TypeError.
validate_tree_fast(t, taxids_search, filterids) ==
    LET taxids_filter == IF filterids.given THEN filterids.ids ELSE <<>>
    IN  IF t = NoDict /\ \E i \in 1..Len(taxids_search) :
                            taxids_search[i] \notin Range(taxids_filter)
        THEN [ret |-> FALSE, exc |-> "TypeError"]
        ELSE [ret |-> \A i \in 1..Len(taxids_search) :
                         \/ taxids_search[i] \in Range(taxids_filter)
                         \/ taxids_search[i] \in NodeKeys(t.nodes),
              exc |-> "none"]

\* node.leaves, by name: the nodes that are the node or hang from it and that
\* no node of the tree has for parent.
leaves(t, tax_id) ==
    {n \in DOMAIN t.nodes :
        /\ hangs(t.nodes, n, tax_id, Cardinality(DOMAIN t.nodes))
        /\ \A m \in (DOMAIN t.nodes) \ {n} : t.nodes[m].parentTaxId # n}

\* search_tree(tree, taxidfile, filterfile, search_rank): the search IDs that
\* the filter list has and the leaves of search_rank below the search IDs.
\* find returns None for an ID the tree does not have, and None has no leaves.
search_tree(t, taxids_search, filterids, rank) ==
    LET taxids_filter == IF filterids.given THEN filterids.ids ELSE <<>>
    IN  IF \E i \in 1..Len(taxids_search) : taxids_search[i] \notin DOMAIN t.nodes
        THEN [ret |-> {}, exc |-> "AttributeError"]
        ELSE [ret |-> (Range(taxids_search) \cap Range(taxids_filter))
                      \cup {n \in UNION {leaves(t, taxids_search[i]) :
                                             i \in 1..Len(taxids_search)} :
                               t.nodes[n].rank = rank},
              exc |-> "none"]

\* search_tree_fast(tree, taxidfile, filterfile, search_rank): the search IDs
\* that the filter list has and what get_leaves finds of search_rank below the
\* search IDs.  tree["parents"][tax_id] of an ID that is the parent of no node
\* is a KeyError; get_leaves walks "parents" as get_leaves of tree_fast.py
\* walks "children" and keeps of what it meets the nodes of search_rank.
search_tree_fast(t, taxids_search, filterids, rank) ==
    LET taxids_filter == IF filterids.given THEN filterids.ids ELSE <<>>
        first == {i \in 1..Len(taxids_search) : taxids_search[i] \notin DOMAIN t.parents}
        until == IF first = {} THEN taxids_search
                 ELSE SubSeq(taxids_search, 1,
                             (CHOOSE i \in first : \A j \in first : i <= j) - 1)
        walk  == search_each(until, 1, t.parents, <<>>)
    IN  IF taxids_search = <<>> THEN [ret |-> {}, exc |-> "none"]
        ELSE IF t = NoDict THEN [ret |-> {}, exc |-> "TypeError"]
        ELSE IF walk.endless THEN [ret |-> {}, exc |-> "RecursionError"]
        ELSE IF first # {} THEN [ret |-> {}, exc |-> "KeyError"]
        ELSE [ret |-> (Range(taxids_search) \cap Range(taxids_filter))
                      \cup {n \in Range(walk.found) : DictGet(t.nodes, n).rank = rank},
              exc |-> "none"]

\* ------------------------------------------------------------ calls

NoArg == [given |-> FALSE, ids |-> <<>>]

Arg(ids) == [given |-> TRUE, ids |-> ids]

\* The record of a call op(ids, flt, **kw): the tree it was applied to (src),
\* the exception it raised ("none": it returned), whether it logged a warning,
\* what it returned ("None", "list", "bool") with the set of the list (found)
\* or the boolean (valid), and whether it repeats the call before it.  A call
\* that takes a file or returns a node records them as input and node.
Call(op, ids, flt, kw, src, raised, warned, returned, found, valid, repeat) ==
    [op |-> op, ids |-> ids, flt |-> flt, kw |-> kw, src |-> src,
     raised |-> raised, warned |-> warned, returned |-> returned,
     found |-> found, valid |-> valid, repeat |-> repeat,
     input |-> <<>>, node |-> None]

NoCall == Call("none", <<>>, NoArg, NoArg, None, "none", FALSE, "None", {}, FALSE, FALSE)

\* The caller holds nothing of an earlier call.
Idle == last.op = "none"

\* TaxonResolverFast.__init__ and TaxonResolver.__init__ with the mode given.
InitModes ==
    /\ logging \in BOOLEAN
    /\ heap = [r \in {} |-> NewTreeDict]
    /\ tree = None
    /\ full_tree = None
    /\ last = NoCall
    /\ outfile = NoFile
    /\ a_tree = NoNode
    /\ a_full_tree = NoNode
    /\ parsed = NoParse
    /\ mode \in valid_modes
    /\ f_tree = NoDict
    /\ taxdump = <<>>

\* TaxonResolverFast.__init__ and TaxonResolver.__init__ with its default mode.
Init == InitModes /\ mode = "anytree"

\* TaxonResolverFast.build(inputfile); copy.copy(self.tree) is a new outer dict
\* around the same "nodes" and "children" objects.  Nothing refers to the
\* trees the resolver held before: they are reclaimed, here before the new one
\* is numbered.  An exception of build_tree leaves the resolver as it was.
Build(inputfile) ==
    LET b   == build_tree(Reclaim(heap, {}), inputfile)
        end == Call("build", <<>>, NoArg, NoArg, None,
                    b.exc, FALSE, "None", {}, FALSE, FALSE)
    IN  /\ Idle
        /\ IF b.exc # "none"
           THEN UNCHANGED <<heap, tree, full_tree>>
           ELSE /\ tree' = b.ret
                /\ full_tree' = b.ret
                /\ heap' = Reclaim(b.heap, {b.ret})
        /\ last' = [end EXCEPT !.input = inputfile]
        /\ UNCHANGED <<logging, others>>

\* TaxonResolverFast.filter(taxidfilter).  Without a full tree the resolver
\* warns and goes on when it has a logger, and exits otherwise.  The tree
\* filtered stays alive for the caller that still holds it; what neither the
\* resolver nor that caller reaches is reclaimed.  A filter may follow a build
\* or a filter at once.
Filter(taxidfilter) ==
    LET warned == full_tree = None /\ logging
        f      == filter_tree(heap, tree, taxidfilter)
        again  == last.op = "filter" /\ last.raised = "none" /\ last.ids = taxidfilter
    IN  /\ last.op \in {"none", "build", "filter"}
        /\ IF full_tree = None /\ ~logging
           THEN /\ last' = Call("filter", taxidfilter, NoArg, NoArg, tree,
                                "SystemExit", FALSE, "None", {}, FALSE, again)
                /\ UNCHANGED <<logging, heap, tree, full_tree>>
           ELSE IF f.exc # "none"
           THEN /\ last' = Call("filter", taxidfilter, NoArg, NoArg, tree,
                                f.exc, warned, "None", {}, FALSE, again)
                /\ UNCHANGED <<logging, heap, tree, full_tree>>
           ELSE /\ tree' = f.ret
                /\ heap' = Reclaim(f.heap, {f.ret, full_tree, tree})
                /\ last' = Call("filter", taxidfilter, NoArg, NoArg, tree,
                                "none", warned, "None", {}, FALSE, again)
                /\ UNCHANGED <<logging, full_tree>>
        /\ UNCHANGED others

\* TaxonResolverFast.validate(taxidvalidate, taxidfilter)
Validate(taxidvalidate, taxidfilter) ==
    LET v == validate_taxids(heap, tree, taxidvalidate, taxidfilter)
    IN  /\ Idle
        /\ last' = Call("validate", taxidvalidate, taxidfilter, NoArg, tree,
                        v.exc, FALSE, IF v.exc = "none" THEN "bool" ELSE "None",
                        {}, v.ret, FALSE)
        /\ UNCHANGED <<logging, heap, tree, full_tree, others>>

\* TaxonResolverFast.search(taxidsearch, taxidfilter, **kwargs): the IDs are
\* validated first; invalid ones end the call with a warning and None when the
\* resolver has a logger, and with print_and_exit otherwise.
Search(taxidsearch, taxidfilter, kwargs) ==
    LET v == validate_taxids(heap, tree, taxidsearch, taxidfilter)
        s == search_taxids(heap, tree, taxidsearch, taxidfilter, kwargs)
        end(raised, warned, returned, found) ==
            Call("search", taxidsearch, taxidfilter, kwargs, tree,
                 raised, warned, returned, found, FALSE, FALSE)
    IN  /\ Idle
        /\ last' = IF v.exc # "none" THEN end(v.exc, FALSE, "None", {})
                   ELSE IF ~v.ret
                        THEN IF logging THEN end("none", TRUE, "None", {})
                             ELSE end("SystemExit", FALSE, "None", {})
                   ELSE IF s.exc # "none" THEN end(s.exc, FALSE, "None", {})
                   ELSE end("none", FALSE, "list", s.ret)
        /\ UNCHANGED <<logging, heap, tree, full_tree, others>>

\* The caller drops what it holds of the last call: the value returned and,
\* after a filter, the tree that was filtered.  build, validate and search are
\* called from there: they depend on nothing the caller holds.
Discard ==
    /\ ~Idle
    /\ last' = NoCall
    /\ heap' = Reclaim(heap, {tree, full_tree})
    /\ parsed' = NoParse
    /\ UNCHANGED <<logging, tree, full_tree, outfile, a_tree, a_full_tree, modes>>

\* TaxonResolverFast.find_by_taxid(taxid): the node, or a warning and None when
\* the resolver has a logger and print_and_exit otherwise.  On tree = None
\* validate_by_taxid subscripts None.  A lookup may follow the build at once:
\* the call then records the dump that was built.
Find(taxid) ==
    LET built == IF last.op = "build" /\ last.raised = "none" THEN last.input ELSE <<>>
        end(raised, warned, returned, node) ==
            [Call("find", <<taxid>>, NoArg, NoArg, tree,
                  raised, warned, returned, {}, FALSE, FALSE)
                EXCEPT !.input = built, !.node = node]
    IN  /\ last.op \in {"none", "build"}
        /\ last' = IF tree = None THEN end("TypeError", FALSE, "None", None)
                   ELSE IF validate_by_taxid(heap, tree, taxid)
                        THEN end("none", FALSE, "node", find_by_taxid(heap, tree, taxid))
                   ELSE IF logging THEN end("none", TRUE, "None", None)
                   ELSE end("SystemExit", FALSE, "None", None)
        /\ UNCHANGED <<logging, heap, tree, full_tree, others>>

\* A call of parse_tax_ids(inputfile, sep, indx) by the caller of the resolver.
Parse(inputfile, sep, indx) ==
    LET p == parse_tax_ids(inputfile, sep, indx)
    IN  /\ Idle
        /\ parsed' = [done |-> TRUE, inputfile |-> inputfile, sep |-> sep, indx |-> indx,
                      ret |-> p.ret, exc |-> p.exc]
        /\ last' = [NoCall EXCEPT !.op = "parse_tax_ids", !.raised = p.exc]
        /\ UNCHANGED <<logging, heap, tree, full_tree, outfile, a_tree, a_full_tree, modes>>

\* The formats named to write and load; str.lower of one.
Formats == {"pickle", "json", "JSON", "xml"}

lower(format) == IF format = "JSON" THEN "json" ELSE format

\* TaxonResolverFast._valid_formats
valid_formats == {"json", "pickle"}

\* TaxonResolverFast.write(outputfile, outputformat).  For a format that is not
\* valid the resolver calls its logger, which is no function: a TypeError.
Write(outputformat) ==
    LET valid == lower(outputformat) \in valid_formats
    IN  /\ Idle
        /\ outfile' = IF valid THEN write_tree(heap, tree, outfile, lower(outputformat))
                      ELSE outfile
        /\ last' = [Call("write", <<>>, NoArg, NoArg, tree,
                         IF ~valid /\ logging THEN "TypeError" ELSE "none",
                         FALSE, "None", {}, FALSE, FALSE)
                        EXCEPT !.input = lower(outputformat)]
        /\ UNCHANGED <<logging, heap, tree, full_tree, a_tree, a_full_tree, parsed, modes>>

\* TaxonResolverFast.load(inputfile, inputformat) of the file written last;
\* copy.copy(self.tree) is a new outer dict around the same objects, and
\* copy.copy(None) is None.  A load may follow the write at once: the caller
\* then still holds the tree that was written, and the call records whether it
\* reads that file in the format it was written in (repeat).
Load(inputformat) ==
    LET valid == lower(inputformat) \in valid_formats
        held  == last.op = "write"
        l     == load_tree(IF held THEN heap ELSE Reclaim(heap, {}),
                           outfile, lower(inputformat))
        back  == held /\ last.raised = "none" /\ last.input = lower(inputformat)
        end(raised) ==
            [Call("load", <<>>, NoArg, NoArg, tree,
                  raised, FALSE, "None", {}, FALSE, back)
                EXCEPT !.input = lower(inputformat)]
    IN  /\ last.op \in {"none", "write"}
        /\ IF ~valid
           THEN /\ last' = end(IF logging THEN "TypeError" ELSE "none")
                /\ UNCHANGED <<heap, tree, full_tree>>
           ELSE IF l.exc # "none"
           THEN /\ last' = end(l.exc)
                /\ UNCHANGED <<heap, tree, full_tree>>
           ELSE /\ last' = end("none")
                /\ tree' = l.ret
                /\ full_tree' = l.ret
                /\ heap' = IF held THEN Reclaim(l.heap, {l.ret, tree})
                           ELSE Reclaim(l.heap, {l.ret})
        /\ UNCHANGED <<logging, others>>

\* load_tree(inputfile, inputformat, mode, root_key) of tree.py on a file that
\* pickle.dump wrote of an anytree tree: the tree returned and the exception
\* raised.  pickle.load returns the tree in either mode; the JSON readers of
\* both modes do not read what pickle.dump wrote (a ValueError:
\* UnicodeDecodeError or JSONDecodeError); any other format returns None.
any_load_tree(inputfile, inputformat) ==
    IF inputformat = "pickle" THEN [ret |-> inputfile, exc |-> "none"]
    ELSE IF inputformat = "json" THEN [ret |-> NoNode, exc |-> "ValueError"]
    ELSE [ret |-> NoNode, exc |-> "none"]

\* TaxonResolver.load(inputfile, inputformat) of a pickle of an anytree tree,
\* in either mode: self.tree is what load_tree returns, _full_tree is not set.
\* For a format that is not valid the resolver calls its logger, which is no
\* function: a TypeError.
AnyLoad(inputfile, inputformat) ==
    LET valid == lower(inputformat) \in valid_formats /\ mode \in valid_modes
        l     == any_load_tree(inputfile, lower(inputformat))
        end(raised) ==
            [Call("TaxonResolver.load", <<>>, NoArg, NoArg, None,
                  raised, FALSE, "None", {}, FALSE, FALSE)
                EXCEPT !.input = inputfile]
    IN  /\ Idle
        /\ IF ~valid
           THEN /\ last' = end(IF logging THEN "TypeError" ELSE "none")
                /\ UNCHANGED <<a_tree, f_tree>>
           ELSE IF l.exc # "none"
           THEN /\ last' = end(l.exc)
                /\ UNCHANGED <<a_tree, f_tree>>
           ELSE /\ last' = end("none")
                /\ a_tree' = l.ret
                /\ f_tree' = NoDict
        /\ UNCHANGED <<logging, heap, tree, full_tree, outfile, a_full_tree, parsed,
                       mode, taxdump>>

\* TaxonResolver.filter(taxidfilter), taxidfilter being the IDs of the file:
\* without a full tree, or in another mode than "anytree", the resolver warns
\* and goes on when it has a logger, and exits otherwise.  filter_tree is given
\* self.tree: on the dict of mode "fast" the filter of find or of findall
\* reads the name of a dict, an AttributeError.  The call records the anytree
\* tree it filtered.
AnyFilter(taxidfilter) ==
    LET message == a_full_tree = NoNode \/ mode # "anytree"
        f       == IF f_tree # NoDict THEN [ret |-> NoNode, exc |-> "AttributeError"]
                   ELSE any_filter_tree(a_tree, taxidfilter, root_key)
        end(raised, warned) ==
            [Call("TaxonResolver.filter", taxidfilter, NoArg, NoArg, None,
                  raised, warned, "None", {}, FALSE, FALSE)
                EXCEPT !.input = a_tree]
    IN  /\ Idle
        /\ IF message /\ ~logging
           THEN /\ last' = end("SystemExit", FALSE)
                /\ UNCHANGED a_tree
           ELSE IF f.exc # "none"
           THEN /\ last' = end(f.exc, message)
                /\ UNCHANGED a_tree
           ELSE /\ last' = end("none", message)
                /\ a_tree' = f.ret
        /\ UNCHANGED <<logging, heap, tree, full_tree, outfile, a_full_tree, parsed, modes>>

\* TaxonResolver.build(inputfile): in mode "anytree" the tree of build_tree and
\* its copy as _full_tree, in mode "fast" the dict of build_tree_fast, which
\* replaces whatever self.tree was.  The call records the dump it read.
AnyBuild(inputfile) ==
    LET a == any_build_tree(inputfile, root_key)
        f == build_tree_fast(inputfile)
        b == IF mode = "anytree" THEN a.exc ELSE f.exc
    IN  /\ Idle
        /\ last' = [Call("TaxonResolver.build", <<>>, NoArg, NoArg, None,
                         b, FALSE, "None", {}, FALSE, FALSE)
                        EXCEPT !.input = inputfile]
        /\ IF b # "none" THEN UNCHANGED <<a_tree, a_full_tree, f_tree, taxdump>>
           ELSE /\ taxdump' = inputfile
                /\ IF mode = "anytree"
                   THEN a_tree' = a.ret /\ a_full_tree' = a.ret /\ f_tree' = NoDict
                   ELSE f_tree' = f.ret /\ a_tree' = NoNode /\ UNCHANGED a_full_tree
        /\ UNCHANGED <<logging, heap, tree, full_tree, outfile, parsed, mode>>

\* TaxonResolver.validate(taxidsearch, taxidfilter), the arguments being the
\* IDs of the files: validate_tree or validate_tree_fast, by the mode.
AnyValidate(taxidsearch, taxidfilter) ==
    LET v == IF mode = "anytree" THEN validate_tree(a_tree, taxidsearch, taxidfilter)
             ELSE validate_tree_fast(f_tree, taxidsearch, taxidfilter)
    IN  /\ Idle
        /\ last' = Call("TaxonResolver.validate", taxidsearch, taxidfilter, NoArg, None,
                        v.exc, FALSE, IF v.exc = "none" THEN "bool" ELSE "None",
                        {}, v.ret, FALSE)
        /\ UNCHANGED <<logging, heap, tree, full_tree, others>>

\* TaxonResolver.search(taxidsearch, taxidfilter): the IDs are validated
\* first; invalid ones end the call with a warning and None when the resolver
\* has a logger, and with print_and_exit otherwise.
AnySearch(taxidsearch, taxidfilter) ==
    LET v == IF mode = "anytree" THEN validate_tree(a_tree, taxidsearch, taxidfilter)
             ELSE validate_tree_fast(f_tree, taxidsearch, taxidfilter)
        s == IF mode = "anytree"
             THEN search_tree(a_tree, taxidsearch, taxidfilter, search_rank)
             ELSE search_tree_fast(f_tree, taxidsearch, taxidfilter, search_rank)
        end(raised, warned, returned, found) ==
            Call("TaxonResolver.search", taxidsearch, taxidfilter, NoArg, None,
                 raised, warned, returned, found, FALSE, FALSE)
    IN  /\ Idle
        /\ last' = IF v.exc # "none" THEN end(v.exc, FALSE, "None", {})
                   ELSE IF ~v.ret
                        THEN IF logging THEN end("none", TRUE, "None", {})
                             ELSE end("SystemExit", FALSE, "None", {})
                   ELSE IF s.exc # "none" THEN end(s.exc, FALSE, "None", {})
                   ELSE end("none", FALSE, "list", s.ret)
        /\ UNCHANGED <<logging, heap, tree, full_tree, others>>

\* TaxonResolver.search_by_taxid(taxid): the node, or a warning and None when
\* the resolver has a logger and print_and_exit otherwise.  In mode "anytree"
\* find looks among what hangs from the root of self.tree, and reads the name
\* of None when there is no tree; in mode "fast" the ID is looked up in
\* tree["nodes"], and what is no dict is not subscripted.
AnyFind(taxid) ==
    LET end(raised, warned, returned, node) ==
            [Call("TaxonResolver.search_by_taxid", <<taxid>>, NoArg, NoArg, None,
                  raised, warned, returned, {}, FALSE, FALSE)
                EXCEPT !.node = node]
        missing == IF logging THEN end("none", TRUE, "None", None)
                   ELSE end("SystemExit", FALSE, "None", None)
    IN  /\ Idle
        /\ last' = IF mode = "anytree"
                   THEN IF a_tree = NoNode THEN end("AttributeError", FALSE, "None", None)
                        ELSE IF taxid \in DOMAIN a_tree.nodes
                        THEN end("none", FALSE, "node", find(a_tree, taxid))
                        ELSE missing
                   ELSE IF f_tree = NoDict THEN end("TypeError", FALSE, "None", None)
                        ELSE IF taxid \in NodeKeys(f_tree.nodes)
                        THEN end("none", FALSE, "node", DictGet(f_tree.nodes, taxid))
                        ELSE missing
        /\ UNCHANGED <<logging, heap, tree, full_tree, others>>

Next ==
    \/ Discard
    \/ \E inputfile \in Dumps : Build(inputfile)
    \/ \E taxidfilter \in IdLists : Filter(taxidfilter)
    \/ \E taxidvalidate \in IdLists, taxidfilter \in {NoArg} \cup {Arg(l) : l \in IdLists} :
          Validate(taxidvalidate, taxidfilter)
    \/ \E taxidsearch \in IdLists, taxidfilter \in {NoArg} \cup {Arg(l) : l \in IdLists} :
          Search(taxidsearch, taxidfilter, NoArg)
    \/ \E taxidsearch \in IdLists, exclude \in IdLists :
          Search(taxidsearch, NoArg, Arg(exclude))
    \/ \E taxid \in TaxIds : Find(taxid)
    \/ \E outputformat \in Formats : Write(outputformat)
    \/ \E inputformat \in Formats : Load(inputformat)
    \/ Idle /\ \E inputfile \in IdFiles, sep \in Seps, indx \in Indexes :
                  Parse(inputfile, sep, indx)
    \/ \E inputfile \in AnyPickles, inputformat \in Formats : AnyLoad(inputfile, inputformat)
    \/ \E taxidfilter \in IdLists : AnyFilter(taxidfilter)
    \/ \E inputfile \in Dumps : AnyBuild(inputfile)
    \/ \E taxidsearch \in IdLists, taxidfilter \in {NoArg} \cup {Arg(l) : l \in IdLists} :
          AnyValidate(taxidsearch, taxidfilter)
    \/ \E taxidsearch \in IdLists, taxidfilter \in {NoArg} \cup {Arg(l) : l \in IdLists} :
          AnySearch(taxidsearch, taxidfilter)
    \/ \E taxid \in TaxIds : AnyFind(taxid)

Spec == InitModes /\ [][Next]_vars

\* The read path alone: a built tree, validated and searched.
NextSearch ==
    \/ Discard
    \/ \E inputfile \in Dumps : Build(inputfile)
    \/ \E taxidvalidate \in IdLists, taxidfilter \in {NoArg} \cup {Arg(l) : l \in IdLists} :
          Validate(taxidvalidate, taxidfilter)
    \/ \E taxidsearch \in IdLists, taxidfilter \in {NoArg} \cup {Arg(l) : l \in IdLists} :
          Search(taxidsearch, taxidfilter, NoArg)
    \/ \E taxidsearch \in IdLists, exclude \in IdLists :
          Search(taxidsearch, NoArg, Arg(exclude))

SpecSearch == Init /\ [][NextSearch]_vars

\* The filter path alone: a tree built and filtered, any number of times.
NextFilter ==
    \/ Discard
    \/ \E inputfile \in Dumps : Build(inputfile)
    \/ \E taxidfilter \in IdLists : Filter(taxidfilter)

SpecFilter == Init /\ [][NextFilter]_vars

\* The build path: a dump, whatever its anomalies, built by a resolver that
\* holds no tree yet, looked up and searched.
NextBuild ==
    \/ Discard
    \/ \E inputfile \in AnyDumps : tree = None /\ Build(inputfile)
    \/ \E taxid \in TaxIds : Find(taxid)
    \/ \E taxidsearch \in IdLists : Search(taxidsearch, NoArg, NoArg)

SpecBuild == Init /\ [][NextBuild]_vars

\* The snapshot path: a tree built, written and loaded.
NextSnapshot ==
    \/ Discard
    \/ \E inputfile \in Dumps : Build(inputfile)
    \/ \E outputformat \in Formats : Write(outputformat)
    \/ \E inputformat \in Formats : Load(inputformat)

SpecSnapshot == Init /\ [][NextSnapshot]_vars

\* TaxonResolver alone: a tree loaded and filtered, any number of times.
NextAnytree ==
    \/ Discard
    \/ \E inputfile \in AnyPickles, inputformat \in Formats : AnyLoad(inputfile, inputformat)
    \/ \E taxidfilter \in IdLists : AnyFilter(taxidfilter)

SpecAnytree == Init /\ [][NextAnytree]_vars

\* TaxonResolver in either mode: a dump built, validated and searched.
NextModes ==
    \/ Discard
    \/ \E inputfile \in Dumps : AnyBuild(inputfile)
    \/ \E taxidsearch \in IdLists, taxidfilter \in {NoArg} \cup {Arg(l) : l \in IdLists} :
          AnyValidate(taxidsearch, taxidfilter)
    \/ \E taxidsearch \in IdLists, taxidfilter \in {NoArg} \cup {Arg(l) : l \in IdLists} :
          AnySearch(taxidsearch, taxidfilter)
    \/ \E taxid \in TaxIds : AnyFind(taxid)

SpecModes == InitModes /\ [][NextModes]_vars

\* parse_tax_ids alone, on any ID file with any separator and index.
NextParse ==
    \/ Discard
    \/ Idle /\ \E inputfile \in IdFiles, sep \in Seps, indx \in Indexes :
                  Parse(inputfile, sep, indx)

SpecParse == Init /\ [][NextParse]_vars

\* ------------------------------------------------- the hierarchy, by parents

\* The TaxIDs of the nodes of the tree at reference r.
NodeIds(r) == NodeKeys(heap[r].nodes)

\* The parent_tax_id of node n of the tree at r.
ParentOf(r, n) == DictGet(heap[r].nodes, n).parent_tax_id

RECURSIVE Reaches(_, _, _, _)
\* The parent chain of node n reaches x in at most k steps through nodes of
\* the tree at r.
Reaches(r, n, x, k) ==
    /\ k > 0
    /\ n \in NodeIds(r)
    /\ \/ ParentOf(r, n) = x
       \/ ParentOf(r, n) # n /\ Reaches(r, ParentOf(r, n), x, k - 1)

\* The transitive descendants of x in the tree at r.
Descendants(r, x) ==
    {n \in NodeIds(r) \ {x} : Reaches(r, n, x, Cardinality(NodeIds(r)))}

\* The nodes of the tree at r on the parent chain of x.
Ancestors(r, x) ==
    {a \in NodeIds(r) \ {x} : Reaches(r, x, a, Cardinality(NodeIds(r)))}

\* subtree_of(x): x and its transitive descendants.
Subtree(r, x) == {x} \cup Descendants(r, x)

\* The union of the subtrees of the IDs of a list.
Subtrees(r, ids) == UNION {Subtree(r, x) : x \in Range(ids)}

\* ------------------------------------------------------------ search

\* C1: search(include=[x]) with no exclude and no filter, for an ID x of the
\* index, returns x itself and every transitive descendant of x, nothing else.
C1_SearchReturnsSubtree ==
    (/\ last.op = "search"
     /\ Len(last.ids) = 1
     /\ ~last.flt.given
     /\ ~last.kw.given
     /\ tree # None
     /\ last.ids[1] \in NodeIds(tree))
    => (last.returned = "list" /\ last.found = Subtree(tree, last.ids[1]))

\* C2: search(include=S, exclude=T) returns the union of the subtrees of S
\* minus the union of the subtrees of T.
C2_SearchExcludesSubtrees ==
    (/\ last.op = "search"
     /\ last.kw.given
     /\ tree # None
     /\ Range(last.ids) \cup Range(last.kw.ids) \subseteq NodeIds(tree))
    => (/\ last.returned = "list"
        /\ last.found = Subtrees(tree, last.ids) \ Subtrees(tree, last.kw.ids))

\* C3: every ID that search(include=S, filter=F) returns is a member of F,
\* whatever the size of the supplied list F.
C3_SearchWithinFilter ==
    (last.op = "search" /\ last.flt.given /\ last.returned = "list")
    => last.found \subseteq Range(last.flt.ids)

\* The IDs of the last call's first list that are no node of the tree.
AbsentIds == {x \in Range(last.ids) : x \notin NodeIds(tree)}

\* C4: an include ID absent from the index makes the whole search
\* fail with no result set, whatever the filter list is.
C4_AbsentIncludeFails ==
    (last.op = "search" /\ tree # None /\ AbsentIds # {})
    => last.returned = "None"

\* ------------------------------------------------------------ validate

\* C5: validate returns true if and only if every ID is a node of
\* the index, also when a filter list is passed.
C5_ValidateIffAllNodes ==
    (last.op = "validate" /\ tree # None)
    => (/\ last.returned = "bool"
        /\ last.valid <=> Range(last.ids) \subseteq NodeIds(tree))

\* ------------------------------------------------------------ filter

\* The last call is a filter that returned, applied to a tree.
Filtered == last.op = "filter" /\ last.raised = "none" /\ last.src # None

\* The keep-IDs of the last filter that are nodes of the tree it was applied to.
KeptIds == Range(last.ids) \cap NodeIds(last.src)

\* The nodes of tree r that are a keep-ID, an ancestor or a descendant of one.
Related(r, keep) ==
    keep \cup UNION {Ancestors(r, k) \cup Descendants(r, k) : k \in keep}

\* C6: filter(K) yields an index that contains every keep-ID of K that exists
\* in the source index, every ancestor of each up to the root, and every
\* descendant of each.
C6_FilterKeepsRelated ==
    Filtered => Related(last.src, KeptIds) \subseteq NodeIds(tree)

\* C7: the nodes of the index filter(K) yields are nodes of the source index,
\* and each is a keep-ID, an ancestor of a keep-ID or a descendant of one.
C7_FilterOnlyRelated ==
    Filtered => (/\ NodeIds(tree) \subseteq NodeIds(last.src)
                 /\ NodeIds(tree) \subseteq Related(last.src, KeptIds))

\* A filter that kept some nodes of a tree and dropped a node that no keep-ID
\* is related to.
C7_Witness ==
    /\ Filtered
    /\ NodeIds(tree) # {}
    /\ NodeIds(last.src) \ Related(last.src, KeptIds) # {}

\* The tree at r has a root, and every other node's parent is a node of it.
RootedTree(r) ==
    /\ \E n \in NodeIds(r) : ParentOf(r, n) = n
    /\ \A n \in NodeIds(r) : ParentOf(r, n) = n \/ ParentOf(r, n) \in NodeIds(r)

\* C8: after a filter whose keep set holds an existing ID, the index is a
\* valid rooted tree: the root is in it, and so is the parent of every other
\* node of it (the source index being one).
C8_FilterKeepsRootedTree ==
    (Filtered /\ RootedTree(last.src) /\ KeptIds # {}) => RootedTree(tree)

\* C9: a filter repeated with the same keep set completes without error and
\* leaves the node set of the index as the first one made it.
C9_FilterIdempotent ==
    (last.op = "filter" /\ last.repeat)
    => (/\ last.raised = "none"
        /\ last.src # None
        /\ NodeIds(tree) = NodeIds(last.src))

\* A second filter with the same keep set, the first one having kept some
\* nodes of the full tree and dropped others.
C9_Witness ==
    /\ Filtered
    /\ last.repeat
    /\ last.src # full_tree
    /\ NodeIds(tree) # {}
    /\ full_tree # None
    /\ NodeIds(tree) # NodeIds(full_tree)

\* C10: a filter step leaves every tree object that existed before it as it
\* was, the filtered tree and the full-tree copy among them; of the resolver
\* only the current-tree reference changes, to a newly created object.
C10_FilterFrame ==
    [][(\E taxidfilter \in IdLists : Filter(taxidfilter))
        => (/\ full_tree' = full_tree
            /\ logging' = logging
            /\ \A r \in (DOMAIN heap) \cap {tree, full_tree} :
                  r \in DOMAIN heap' /\ heap'[r] = heap[r]
            /\ IF last'.raised = "none"
               THEN tree' \notin DOMAIN heap /\ tree' \in DOMAIN heap'
               ELSE tree' = tree)]_vars

\* A filter of a tree that shares its nodes with the full-tree copy, which
\* kept some of them and dropped others.
C10_Witness ==
    /\ Filtered
    /\ last.src = full_tree
    /\ tree # full_tree
    /\ NodeIds(tree) # {}
    /\ NodeIds(tree) # NodeIds(full_tree)

\* C11: a filter whose keep set holds an ID absent from the source index skips
\* that ID without raising an error and leaves the index filtered by the other
\* keep-IDs (the resolver not having refused the call for want of a built
\* tree).
C11_FilterSkipsAbsentIds ==
    (/\ last.op = "TaxonResolver.filter"
     /\ last.input # NoNode
     /\ last.raised # "SystemExit"
     /\ Range(last.ids) \ DOMAIN last.input.nodes # {})
    => (/\ last.raised = "none"
        /\ a_tree = any_filter_tree(last.input,
                        SelectSeq(last.ids, LAMBDA x : x \in DOMAIN last.input.nodes),
                        root_key).ret)

\* C18: a filter of a tree that the resolver got by load, without a build of
\* its own, is accepted, with no exit and no warning that the tree needs to be
\* built, and leaves the resolver with the tree filtered by the keep-IDs.
C18_FilterAfterLoadAccepted ==
    (/\ last.op = "TaxonResolver.filter"
     /\ last.input # NoNode
     /\ Range(last.ids) \subseteq DOMAIN last.input.nodes)
    => (/\ last.raised = "none"
        /\ ~last.warned
        /\ a_tree = any_filter_tree(last.input, last.ids, root_key).ret)

\* ------------------------------------------------------------ build

\* split_line cuts the line in three fields or more.
Whole(line) == Len(split_line(line)) >= 3

\* The records (id, parent id, rank) of a dump: the fields of its whole lines.
Records(lines) == {split_line(lines[i]) : i \in {j \in 1..Len(lines) : Whole(lines[j])}}

\* The dump is made of whole lines.
WholeDump(lines) == \A i \in 1..Len(lines) : Whole(lines[i])

\* The orphans of the tree at r: the nodes whose parent is no node of it.
Orphans(r) == {n \in NodeIds(r) : ParentOf(r, n) \notin NodeIds(r)}

\* The orphans of the tree at r and their descendants.
OrphanRelated(r) == UNION {Subtree(r, o) : o \in Orphans(r)}

\* The roots of the tree at r: the nodes that are their own parent.
Roots(r) == {n \in NodeIds(r) : ParentOf(r, n) = n}

RECURSIVE Below(_, _, _)
\* The IDs that the child lists reach from the IDs of a set, in at most k steps.
Below(children, ids, k) ==
    IF k = 0 THEN ids
    ELSE Below(children,
               ids \cup UNION {Range(children[x]) : x \in ids \cap DOMAIN children},
               k - 1)

\* Two lines of the dump declare the same ID with another parent or rank.
ConflictingDuplicates(lines) ==
    \E f, g \in Records(lines) : f[1] = g[1] /\ (f[2] # g[2] \/ f[3] # g[3])

\* The IDs that the dump declares with a parent that no line declares.
DumpOrphans(lines) ==
    {f[1] : f \in {g \in Records(lines) : \A h \in Records(lines) : h[1] # g[2]}}

\* C13: a dump with a node whose parent ID is not declared builds; the orphan
\* is a node of the map and a lookup by its ID finds it, in TaxonResolverFast
\* and, for the dump that a TaxonResolver built, in either of its modes;
\* neither the orphan nor a descendant of it is among what the child lists
\* reach from the root, and a search from nodes that are none of them never
\* returns one of them.
C13_OrphanRetained ==
    /\ (/\ last.op = "build"
        /\ WholeDump(last.input)
        /\ ~ConflictingDuplicates(last.input)
        /\ \E f \in Records(last.input) : \A g \in Records(last.input) : g[1] # f[2])
       => (/\ last.raised = "none"
           /\ tree # None
           /\ Orphans(tree) # {}
           /\ NodeIds(tree) = {f[1] : f \in Records(last.input)})
    /\ (last.op = "find" /\ tree # None /\ last.ids[1] \in Orphans(tree))
       => (/\ last.raised = "none"
           /\ last.returned = "node"
           /\ last.node.tax_id = last.ids[1])
    /\ tree # None
       => \A root \in Roots(tree) :
             Below(heap[tree].children, {root}, Cardinality(NodeIds(tree)))
                 \cap OrphanRelated(tree) = {}
    /\ (/\ last.op = "search"
        /\ tree # None
        /\ Range(last.ids) \cap OrphanRelated(tree) = {})
       => last.found \cap OrphanRelated(tree) = {}
    /\ (/\ last.op = "TaxonResolver.search_by_taxid"
        /\ taxdump # <<>>
        /\ last.ids[1] \in DumpOrphans(taxdump))
       => (last.raised = "none" /\ last.returned = "node")

\* C14: when the dump declares the same ID twice with a different parent or
\* rank, build surfaces the conflict, by an error or by a warning: the later
\* record is not silently accepted.
C14_DuplicateIdSurfaced ==
    (last.op = "build" /\ ConflictingDuplicates(last.input))
    => (last.raised # "none" \/ last.warned)

\* The number of fields of a line: the texts its separators end, and the text
\* after the last separator unless it is the end of the line.
FieldCount(line) == Len(line.cells) + (IF strip(line.tail) = <<>> THEN 0 ELSE 1)

\* C15: when a line of the dump has fewer than the three fields id, parent id
\* and rank, build fails with an error and creates no node from the line.
C15_ShortLineFails ==
    (last.op = "build" /\ \E i \in 1..Len(last.input) : FieldCount(last.input[i]) < 3)
    => (last.raised # "none" /\ tree = None)

\* C16: build fails with an error when no node of the dump is its own parent,
\* and never publishes an index that has no root.
C16_RootlessBuildFails ==
    /\ (/\ last.op = "build"
        /\ WholeDump(last.input)
        /\ \A f \in Records(last.input) : f[1] # f[2])
       => (last.raised # "none" /\ tree = None)
    /\ tree # None => Roots(tree) # {}

\* C19: after build the root, the node that is its own parent, is a node of
\* the map but no member of its own child list; every other node is a member
\* of the child list of its parent.
C19_RootNotOwnChild ==
    (last.op = "build" /\ last.raised = "none")
    => \A n \in NodeIds(tree) :
          LET children == heap[tree].children
              parent   == ParentOf(tree, n)
          IN  IF parent = n
              THEN n \notin DOMAIN children \/ n \notin Range(children[n])
              ELSE parent \in DOMAIN children /\ n \in Range(children[parent])

\* C20: after build, for every record of the dump, find_by_taxid
\* of its ID returns a node whose parent is the record's field 1 and whose rank
\* is the record's field 2 as the dump writes it.
C20_FindReturnsRecordVerbatim ==
    (last.op = "find" /\ last.input # <<>>)
    => \A f \in Records(last.input) :
          f[1] = last.ids[1]
          => (/\ last.returned = "node"
              /\ last.node.tax_id = f[1]
              /\ last.node.parent_tax_id = f[2]
              /\ last.node.rank = f[3])

\* search_taxids of the one ID, without filter list.
SearchOne(taxid) == search_taxids(heap, tree, <<taxid>>, NoArg, NoArg)

\* C17: for a list S of IDs of the index, a search of S without filter list
\* returns a list exactly when the search of every single ID of S does, and
\* what it returns is the union of what the single searches return: an ID is
\* returned once, and none is missing, when the subtrees of S overlap.
C17_SearchIsUnionOfSingles ==
    (/\ last.op = "search"
     /\ ~last.flt.given
     /\ ~last.kw.given
     /\ tree # None
     /\ Range(last.ids) \subseteq NodeIds(tree))
    => /\ last.returned = "list" <=> \A s \in Range(last.ids) : SearchOne(s).exc = "none"
       /\ last.returned = "list"
          => last.found = UNION {SearchOne(s).ret : s \in Range(last.ids)}

\* A search of two IDs, one an ancestor of the other, that returned a list:
\* the single searches of both find the same ID.
C17_Witness ==
    /\ last.op = "search"
    /\ ~last.flt.given
    /\ tree # None
    /\ Range(last.ids) \subseteq NodeIds(tree)
    /\ last.returned = "list"
    /\ \E s, t \in Range(last.ids) :
          /\ s \in Ancestors(tree, t) \ {t}
          /\ SearchOne(s).ret \cap SearchOne(t).ret # {}

\* ------------------------------------------------------------ snapshots

\* The last call loaded, in the format it was written in, the file that the
\* call before it wrote of a tree, which the caller still holds.
LoadedBack ==
    last.op = "load" /\ last.repeat /\ last.src # None /\ last.input \in valid_formats

\* C12: writing an index and loading it back, with pickle or with JSON, yields
\* an index with the same node set, the same parent and rank for every node,
\* and the same find, search and validate results for every known ID.
C12_WriteLoadRoundTrip ==
    LoadedBack =>
        /\ last.raised = "none"
        /\ tree # None
        /\ NodeIds(tree) = NodeIds(last.src)
        /\ \A x \in NodeIds(last.src) :
              /\ ParentOf(tree, x) = ParentOf(last.src, x)
              /\ find_by_taxid(heap, tree, x).rank = find_by_taxid(heap, last.src, x).rank
              /\ find_by_taxid(heap, tree, x) = find_by_taxid(heap, last.src, x)
              /\ search_taxids(heap, tree, <<x>>, NoArg, NoArg)
                    = search_taxids(heap, last.src, <<x>>, NoArg, NoArg)
              /\ validate_taxids(heap, tree, <<x>>, NoArg)
                    = validate_taxids(heap, last.src, <<x>>, NoArg)
              /\ validate_taxids(heap, tree, <<x>>, NoArg).ret

\* A tree of a root, a node below it with a rank of several words and a node
\* below that one, written as JSON and loaded back.
C12_Witness ==
    /\ LoadedBack
    /\ last.input = "json"
    /\ last.raised = "none"
    /\ \E x, y \in NodeIds(last.src) :
          /\ x # y
          /\ ParentOf(last.src, x) = y
          /\ ParentOf(last.src, y) \notin {x, y}
          /\ ParentOf(last.src, y) \in NodeIds(last.src)
          /\ Len(find_by_taxid(heap, last.src, x).rank) > 1
          /\ search_taxids(heap, tree, <<y>>, NoArg, NoArg).ret = {x}

\* ------------------------------------------------------------ ID files

\* The lines of the file that are no comment and not blank, without the
\* whitespace at their end.
Remaining(inputfile) ==
    LET kept == SelectSeq(inputfile, LAMBDA l : ~startswith(l, "#") /\ rstrip(l) # <<>>)
    IN  [i \in 1..Len(kept) |-> rstrip(kept[i])]

\* Every remaining line has a field at the index.
Indexed(inputfile, sep, indx) ==
    \A l \in Range(Remaining(inputfile)) : Len(fields_of(l, sep)) > indx

\* The field at the index of every remaining line, in file order.
Selected(inputfile, sep, indx) ==
    LET lines == Remaining(inputfile)
    IN  [i \in 1..Len(lines) |-> fields_of(lines[i], sep)[indx + 1]]

\* C21 (as stated): parsing an ID file skips the lines starting with "#" and
\* the blank lines and yields exactly one ID for each remaining line, in file
\* order: the field at the index after splitting the line on the separator.
C21_ParseOneIdPerLine ==
    (parsed.done /\ Indexed(parsed.inputfile, parsed.sep, parsed.indx))
    => (/\ parsed.exc = "none"
        /\ parsed.ret = Selected(parsed.inputfile, parsed.sep, parsed.indx))

\* C21 (amended): parsing an ID file skips the lines starting with "#" and the
\* blank lines and yields, in file order, the field at the index of every
\* remaining line whose field there is not empty; a remaining line with an
\* empty field there yields no ID, and one without a field there makes the
\* call raise IndexError.
C21_ParseNonEmptyFieldPerLine ==
    parsed.done
    => IF Indexed(parsed.inputfile, parsed.sep, parsed.indx)
       THEN /\ parsed.exc = "none"
            /\ parsed.ret = SelectSeq(Selected(parsed.inputfile, parsed.sep, parsed.indx),
                                      LAMBDA id : id # <<>>)
       ELSE parsed.exc = "IndexError"

\* A parse that returned IDs from a file with a comment line and a remaining
\* line whose field at the index is empty.
C21_Witness ==
    /\ parsed.done
    /\ parsed.exc = "none"
    /\ parsed.ret # <<>>
    /\ \E l \in Range(parsed.inputfile) : startswith(l, "#")
    /\ <<>> \in Range(Selected(parsed.inputfile, parsed.sep, parsed.indx))

\* ------------------------------------------------------------ termination

\* C22: a search of IDs of a built index ends, the root among them or not: the
\* walk down the child lists never recurses without bound.
C22_SearchTerminates ==
    (/\ last.op = "search"
     /\ tree # None
     /\ Range(last.ids) \subseteq NodeIds(tree))
    => last.raised # "RecursionError"

\* ------------------------------------------------------------ child index

\* The places of ID c in the child lists of the tree at r.
Listings(r, c) ==
    {pl \in UNION {{<<p, i>> : i \in 1..Len(heap[r].children[p])} :
                      p \in DOMAIN heap[r].children} :
        heap[r].children[pl[1]][pl[2]] = c}

\* The child lists of the tree at r list the nodes of its map and nothing
\* else, each node once, under its parent_tax_id.
ChildIndexConsistent(r) ==
    /\ \A p \in DOMAIN heap[r].children : \A c \in Range(heap[r].children[p]) :
          c \in NodeIds(r) /\ ParentOf(r, c) = p
    /\ \A c \in NodeIds(r) :
          /\ Cardinality(Listings(r, c)) = 1
          /\ \A pl \in Listings(r, c) : pl[1] = ParentOf(r, c)

\* C25: after build and after every filter the child index agrees with the
\* node map: c is listed under p exactly when c is a node whose parent_tax_id
\* is p, and every node is listed once, in one child list.
C25_ChildIndexConsistent ==
    /\ tree # None => ChildIndexConsistent(tree)
    /\ full_tree # None => ChildIndexConsistent(full_tree)

\* A filter that dropped nodes and kept a node with its parent and a node
\* without its parent.
C25_Witness ==
    /\ last.op = "filter"
    /\ last.raised = "none"
    /\ tree # None
    /\ full_tree # None
    /\ NodeIds(tree) # NodeIds(full_tree)
    /\ \E c \in NodeIds(tree) : ParentOf(tree, c) \in NodeIds(tree) \ {c}
    /\ \E c \in NodeIds(tree) : ParentOf(tree, c) \notin NodeIds(tree)

\* ------------------------------------------------------------ filter on filter

\* C28: a filter works on the current tree of the resolver, not on the full
\* tree it was built with: the nodes after the filter are nodes of the tree
\* before it (for TaxonResolverFast, those of them that the keep list names),
\* so that the node set never grows and no later filter brings a node back;
\* a filter that fails leaves the tree as it was.
C28_FilterNeverGrows ==
    /\ last.op = "filter"
       => IF last.raised # "none" THEN tree = last.src
          ELSE IF last.src = None THEN NodeIds(tree) = {}
          ELSE NodeIds(tree) = NodeIds(last.src) \cap Range(last.ids)
    /\ last.op = "TaxonResolver.filter"
       => IF last.raised # "none" THEN a_tree = last.input
          ELSE DOMAIN a_tree.nodes \subseteq DOMAIN last.input.nodes

\* A filter of a tree already filtered, whose keep list names a node that the
\* earlier filter removed, and that kept some node.
C28_Witness ==
    /\ last.op = "filter"
    /\ last.raised = "none"
    /\ last.src # None
    /\ full_tree # None
    /\ Range(last.ids) \cap (NodeIds(full_tree) \ NodeIds(last.src)) # {}
    /\ NodeIds(tree) # {}

\* ------------------------------------------------------------ refused calls

\* C29: a filter on a resolver that holds no tree, neither build nor load
\* having succeeded, does not filter: it reports that the tree needs to be
\* built first, by a warning or by the exit of print_and_exit, raises no other
\* error and leaves the tree of the resolver unset.
C29_FilterUnbuiltRefused ==
    /\ (last.op = "filter" /\ last.src = None /\ full_tree = None)
       => (/\ last.raised \in {"none", "SystemExit"}
           /\ last.raised = "none" => last.warned
           /\ tree = None)
    /\ (last.op = "TaxonResolver.filter" /\ last.input = NoNode /\ a_full_tree = NoNode)
       => (/\ last.raised \in {"none", "SystemExit"}
           /\ last.raised = "none" => last.warned
           /\ a_tree = NoNode)

\* C30: a load or a write with a format that is neither json nor pickle
\* returns without raising and leaves the tree of the resolver, its full-tree
\* copy and the file as they were.
C30_InvalidFormatIgnored ==
    (last.op \in {"write", "load"} /\ last.input \notin valid_formats)
    => (/\ last.raised = "none"
        /\ tree = last.src)

\* ------------------------------------------------------------ search after validate

\* C23: whenever validate returns True for an include list and a filter list,
\* search with the same arguments on the same tree returns a list and raises
\* nothing, for include IDs that are leaves and for include IDs that only the
\* filter list holds too.
C23_ValidSearchReturns ==
    (/\ last.op = "search"
     /\ ~last.kw.given
     /\ tree # None
     /\ validate_taxids(heap, tree, last.ids, last.flt).exc = "none"
     /\ validate_taxids(heap, tree, last.ids, last.flt).ret)
    => (last.raised = "none" /\ last.returned = "list")

\* ------------------------------------------------------------ search results

\* The IDs that the index searched by the TaxonResolver holds: the nodes of
\* its tree in mode "anytree", the keys of "nodes" in mode "fast".
IndexIds ==
    IF mode = "anytree" THEN DOMAIN a_tree.nodes ELSE NodeKeys(f_tree.nodes)

\* C24: every ID that a search returns is a node of the index searched,
\* whatever the include and the filter lists, in TaxonResolver (both modes) and
\* in TaxonResolverFast.
C24_SearchReturnsNodes ==
    /\ (last.op = "TaxonResolver.search" /\ last.returned = "list")
           => last.found \subseteq IndexIds
    /\ (last.op = "search" /\ last.returned = "list" /\ tree # None)
           => last.found \subseteq NodeKeys(heap[tree].nodes)

\* ------------------------------------------------------------ one dump, three resolvers

\* The heap and the tree of a TaxonResolverFast that built the dump.
FastBuilt(inputfile) == build_tree([r \in {} |-> NewTreeDict], inputfile)

\* The dump builds in TaxonResolver, in both modes, and in TaxonResolverFast.
BuildsEverywhere(inputfile) ==
    /\ any_build_tree(inputfile, root_key).exc = "none"
    /\ build_tree_fast(inputfile).exc = "none"
    /\ FastBuilt(inputfile).exc = "none"

\* C26: for the dump that the TaxonResolver built and the ID lists of its
\* validate, the answer is the one of validate_tree on the tree of the dump,
\* of validate_tree_fast on its dict and of TaxonResolverFast.validate on its
\* tree, the IDs of nodes that hang from no root included.
C26_ValidateSameEverywhere ==
    (/\ last.op = "TaxonResolver.validate"
     /\ last.raised = "none"
     /\ taxdump # <<>>
     /\ BuildsEverywhere(taxdump))
    => LET a == validate_tree(any_build_tree(taxdump, root_key).ret, last.ids, last.flt)
           f == validate_tree_fast(build_tree_fast(taxdump).ret, last.ids, last.flt)
           t == validate_taxids(FastBuilt(taxdump).heap, FastBuilt(taxdump).ret,
                                last.ids, last.flt)
       IN  /\ a.exc = "none" /\ f.exc = "none" /\ t.exc = "none"
           /\ last.valid = a.ret
           /\ last.valid = f.ret
           /\ last.valid = t.ret

\* C27: for the dump that the TaxonResolver built and the lists of its search,
\* the call ends in mode "anytree" as it ends in mode "fast": the same set of
\* IDs returned, or no list in either mode.
C27_SearchSameInBothModes ==
    (/\ last.op = "TaxonResolver.search"
     /\ taxdump # <<>>
     /\ any_build_tree(taxdump, root_key).exc = "none"
     /\ build_tree_fast(taxdump).exc = "none")
    => LET at == any_build_tree(taxdump, root_key).ret
           ft == build_tree_fast(taxdump).ret
           av == validate_tree(at, last.ids, last.flt)
           fv == validate_tree_fast(ft, last.ids, last.flt)
           a  == search_tree(at, last.ids, last.flt, search_rank)
           f  == search_tree_fast(ft, last.ids, last.flt, search_rank)
           alist == av.exc = "none" /\ av.ret /\ a.exc = "none"
           flist == fv.exc = "none" /\ fv.ret /\ f.exc = "none"
       IN  /\ alist <=> flist
           /\ alist => a.ret = f.ret

=============================================================================
